---------------------------- MODULE Spec2Model ----------------------------
(***************************************************************************)
(* A model of the aitl command-line client (src/src/cli/main.py): the      *)
(* request payload builder (_create_template, make_job_create_request),    *)
(* the endpoint formatter, and one CLI invocation (the click group         *)
(* callback that authenticates, then the selected command).                *)
(*                                                                         *)
(* Python values are tagged records, so that values of different Python    *)
(* types can be compared:  None, str, int, list, tuple, dict.  A character *)
(* is its code point, a number from 0 to 1114111, and a str is the         *)
(* sequence of its characters, so that what Python does with a character   *)
(* (escaping it, reading it as a digit, skipping it as a blank) can be     *)
(* computed for every character; string concatenation is \o.  Str turns a  *)
(* text of the module, written in printable ASCII, into such a sequence.   *)
(* The key of a dict is the character sequence of a str.  A dict keeps its *)
(* keys in insertion order, as Python does; two dicts of the model are     *)
(* equal when their items and that order agree.  An int whose absolute     *)
(* value is below 2^31 is an integer; a larger one, which the program can  *)
(* only pass on and print, is a long: its decimal text.  A list or dict of *)
(* a call in progress may hold, in place of a value, a reference to an     *)
(* object that a variable of the call names.  What int() reads as a digit  *)
(* and what repr() escapes depend on the Unicode version of the            *)
(* interpreter that runs the program: the variable python names it.        *)
(***************************************************************************)
EXTENDS Integers, Sequences, FiniteSets, TLC

VARIABLES
    python,    \* the version of the CPython interpreter that runs the program
    mode,      \* "script": main.py run as the program; "cli": an invocation of the click
               \* group; "job"/"template": a direct call of the builder
    pc,        \* position of the invocation or of the call
    command,   \* the CLI command of the invocation ("-" for a direct call)
    args,      \* the inputs: option values of the command / arguments of the call
    ctx,       \* click's ctx.obj: None until the group callback has filled it
    net,       \* the HTTP requests performed so far, in order
    stdout,    \* the text printed so far
    ret        \* outcome of the call / of the invocation: none yet, a return or a raise

vars == <<python, mode, pc, command, args, ctx, net, stdout, ret>>

-----------------------------------------------------------------------------
(* Characters and texts *)

\* the printable ASCII characters U+0020 to U+005F and U+0061 to U+007E, in order
AsciiLow == " !\"#$%&'()*+,-./0123456789:;<=>?@ABCDEFGHIJKLMNOPQRSTUVWXYZ[\\]^_"

AsciiHigh == "abcdefghijklmnopqrstuvwxyz{|}~"

\* ord(c) for a character written in the module
ord ==
    [c \in {SubSeq(AsciiLow, i, i) : i \in 1..Len(AsciiLow)} |->
        31 + (CHOOSE i \in 1..Len(AsciiLow) : SubSeq(AsciiLow, i, i) = c)]
    @@ [c \in {SubSeq(AsciiHigh, i, i) : i \in 1..Len(AsciiHigh)} |->
        96 + (CHOOSE i \in 1..Len(AsciiHigh) : SubSeq(AsciiHigh, i, i) = c)]

\* the characters of a text of the module
Str(text) == [i \in 1..Len(text) |-> ord[SubSeq(text, i, i)]]

\* the digit d of a number written in hexadecimal: 0-9, a-f
HexDigit(d) == IF d < 10 THEN 48 + d ELSE 87 + d

\* n in hexadecimal, on w digits
RECURSIVE Hex(_, _)
Hex(n, w) == IF w = 0 THEN <<>> ELSE Hex(n \div 16, w - 1) \o <<HexDigit(n % 16)>>

-----------------------------------------------------------------------------
(* Python values *)

PyNone == [none |-> TRUE]

\* s: the characters
PyStr(s) == [str |-> s]

\* n: an integer, of absolute value below 2^31
PyInt(n) == [int |-> n]

\* an int of absolute value 2^31 or more; s: the characters of its decimal text
PyLong(s) == [long |-> s]

PyList(s) == [list |-> s]

PyTuple(s) == [tuple |-> s]

\* f: the items, by key; keys: the keys in insertion order
PyDict(f, keys) == [dict |-> f, keys |-> keys]

IsNone(v) == "none" \in DOMAIN v

IsStr(v) == "str" \in DOMAIN v

IsLong(v) == "long" \in DOMAIN v

IsInt(v) == "int" \in DOMAIN v \/ IsLong(v)

IsList(v) == "list" \in DOMAIN v

IsTuple(v) == "tuple" \in DOMAIN v

IsDict(v) == "dict" \in DOMAIN v

\* the elements of a list or of a tuple
Items(v) == IF IsList(v) THEN v.list ELSE v.tuple

\* the element of a set of one element. In The({e : x \in {v}}) the name x
\* stands for the value of v, computed once, as a local variable of the code
\* holds the result of the one call that was assigned to it
The(S) == CHOOSE r \in S : TRUE

EmptyDict == PyDict([k \in {} |-> PyNone], <<>>)

\* d[k] = v: a new key goes last, a key already there keeps its place (e is d)
Put(d, k, v) ==
    The({PyDict((k :> v) @@ e.dict,
                IF k \in DOMAIN e.dict THEN e.keys ELSE Append(e.keys, k)) : e \in {d}})

HasKey(d, k) == k \in DOMAIN d.dict

\* Python truthiness, as used by "if x:" and "x if x else y"
Truthy(v) ==
    IF IsNone(v) THEN FALSE
    ELSE IF IsStr(v) THEN v.str # <<>>
    ELSE IF IsInt(v) THEN IsLong(v) \/ v.int # 0
    ELSE IF IsList(v) \/ IsTuple(v) THEN Items(v) # <<>>
    ELSE DOMAIN v.dict # {}

\* type(v).__name__
TypeName(v) ==
    IF IsNone(v) THEN "NoneType"
    ELSE IF IsInt(v) THEN "int"
    ELSE IF IsStr(v) THEN "str"
    ELSE IF IsList(v) THEN "list"
    ELSE IF IsTuple(v) THEN "tuple"
    ELSE "dict"

\* str(n) for n >= 0, digit by digit
RECURSIVE NatToStr(_)
NatToStr(n) ==
    IF n < 10 THEN <<48 + n>>
    ELSE NatToStr(n \div 10) \o <<48 + (n % 10)>>

\* str(n)
IntToStr(n) == IF n < 0 THEN Str("-") \o NatToStr(0 - n) ELSE NatToStr(n)

\* outcome of a call: a returned value or a raised exception (msg: the
\* characters of str(e)). The value of a returned text is its characters.
Return(v) == [ret |-> v]

Raise(type, msg) == [exc |-> type, msg |-> msg]

NoOutcome == [pending |-> TRUE]

Returned(o) == "ret" \in DOMAIN o

Raised(o) == "exc" \in DOMAIN o

\* the texts of a and of b joined, or the exception of the first of them that
\* raised (x is a, y is b)
Cat(a, b) ==
    The({IF Raised(x) THEN x
         ELSE The({IF Raised(y) THEN y ELSE Return(x.ret \o y.ret) : y \in {b}}) :
         x \in {a}})

\* sys.int_info.default_max_str_digits: the most digits int() reads and str()
\* writes
int_max_str_digits == 4300

\* the number of digits of the decimal text s of an int
DigitCount(s) == Len(s) - (IF s[1] = 45 THEN 1 ELSE 0)

\* str(v) of an int: ValueError for one of more than int_max_str_digits digits
IntText(v) ==
    IF IsLong(v)
    THEN IF DigitCount(v.long) > int_max_str_digits
         THEN Raise("ValueError",
                    Str("Exceeds the limit (") \o IntToStr(int_max_str_digits)
                    \o Str(" digits) for integer string conversion; ")
                    \o Str("use sys.set_int_max_str_digits() to increase the limit"))
         ELSE Return(v.long)
    ELSE Return(IntToStr(v.int))

\* the CPython versions the program is run with: 3.11 has the character
\* database of Unicode 14.0, 3.13 that of Unicode 15.1
Interpreters == {"3.11", "3.13"}

\* the characters above U+007E that str.isprintable() rejects (the Unicode
\* categories Cc, Cf, Cs, Co, Cn, Zl, Zp, Zs) in Unicode 14.0, as ranges
\* first-last
UnprintableRanges ==
    {<<127, 160>>, <<173, 173>>, <<888, 889>>, <<896, 899>>, <<907, 907>>, <<909, 909>>,
     <<930, 930>>, <<1328, 1328>>, <<1367, 1368>>, <<1419, 1420>>, <<1424, 1424>>,
     <<1480, 1487>>, <<1515, 1518>>, <<1525, 1541>>, <<1564, 1564>>, <<1757, 1757>>,
     <<1806, 1807>>, <<1867, 1868>>, <<1970, 1983>>, <<2043, 2044>>, <<2094, 2095>>,
     <<2111, 2111>>, <<2140, 2141>>, <<2143, 2143>>, <<2155, 2159>>, <<2191, 2199>>,
     <<2274, 2274>>, <<2436, 2436>>, <<2445, 2446>>, <<2449, 2450>>, <<2473, 2473>>,
     <<2481, 2481>>, <<2483, 2485>>, <<2490, 2491>>, <<2501, 2502>>, <<2505, 2506>>,
     <<2511, 2518>>, <<2520, 2523>>, <<2526, 2526>>, <<2532, 2533>>, <<2559, 2560>>,
     <<2564, 2564>>, <<2571, 2574>>, <<2577, 2578>>, <<2601, 2601>>, <<2609, 2609>>,
     <<2612, 2612>>, <<2615, 2615>>, <<2618, 2619>>, <<2621, 2621>>, <<2627, 2630>>,
     <<2633, 2634>>, <<2638, 2640>>, <<2642, 2648>>, <<2653, 2653>>, <<2655, 2661>>,
     <<2679, 2688>>, <<2692, 2692>>, <<2702, 2702>>, <<2706, 2706>>, <<2729, 2729>>,
     <<2737, 2737>>, <<2740, 2740>>, <<2746, 2747>>, <<2758, 2758>>, <<2762, 2762>>,
     <<2766, 2767>>, <<2769, 2783>>, <<2788, 2789>>, <<2802, 2808>>, <<2816, 2816>>,
     <<2820, 2820>>, <<2829, 2830>>, <<2833, 2834>>, <<2857, 2857>>, <<2865, 2865>>,
     <<2868, 2868>>, <<2874, 2875>>, <<2885, 2886>>, <<2889, 2890>>, <<2894, 2900>>,
     <<2904, 2907>>, <<2910, 2910>>, <<2916, 2917>>, <<2936, 2945>>, <<2948, 2948>>,
     <<2955, 2957>>, <<2961, 2961>>, <<2966, 2968>>, <<2971, 2971>>, <<2973, 2973>>,
     <<2976, 2978>>, <<2981, 2983>>, <<2987, 2989>>, <<3002, 3005>>, <<3011, 3013>>,
     <<3017, 3017>>, <<3022, 3023>>, <<3025, 3030>>, <<3032, 3045>>, <<3067, 3071>>,
     <<3085, 3085>>, <<3089, 3089>>, <<3113, 3113>>, <<3130, 3131>>, <<3141, 3141>>,
     <<3145, 3145>>, <<3150, 3156>>, <<3159, 3159>>, <<3163, 3164>>, <<3166, 3167>>,
     <<3172, 3173>>, <<3184, 3190>>, <<3213, 3213>>, <<3217, 3217>>, <<3241, 3241>>,
     <<3252, 3252>>, <<3258, 3259>>, <<3269, 3269>>, <<3273, 3273>>, <<3278, 3284>>,
     <<3287, 3292>>, <<3295, 3295>>, <<3300, 3301>>, <<3312, 3312>>, <<3315, 3327>>,
     <<3341, 3341>>, <<3345, 3345>>, <<3397, 3397>>, <<3401, 3401>>, <<3408, 3411>>,
     <<3428, 3429>>, <<3456, 3456>>, <<3460, 3460>>, <<3479, 3481>>, <<3506, 3506>>,
     <<3516, 3516>>, <<3518, 3519>>, <<3527, 3529>>, <<3531, 3534>>, <<3541, 3541>>,
     <<3543, 3543>>, <<3552, 3557>>, <<3568, 3569>>, <<3573, 3584>>, <<3643, 3646>>,
     <<3676, 3712>>, <<3715, 3715>>, <<3717, 3717>>, <<3723, 3723>>, <<3748, 3748>>,
     <<3750, 3750>>, <<3774, 3775>>, <<3781, 3781>>, <<3783, 3783>>, <<3790, 3791>>,
     <<3802, 3803>>, <<3808, 3839>>, <<3912, 3912>>, <<3949, 3952>>, <<3992, 3992>>,
     <<4029, 4029>>, <<4045, 4045>>, <<4059, 4095>>, <<4294, 4294>>, <<4296, 4300>>,
     <<4302, 4303>>, <<4681, 4681>>, <<4686, 4687>>, <<4695, 4695>>, <<4697, 4697>>,
     <<4702, 4703>>, <<4745, 4745>>, <<4750, 4751>>, <<4785, 4785>>, <<4790, 4791>>,
     <<4799, 4799>>, <<4801, 4801>>, <<4806, 4807>>, <<4823, 4823>>, <<4881, 4881>>,
     <<4886, 4887>>, <<4955, 4956>>, <<4989, 4991>>, <<5018, 5023>>, <<5110, 5111>>,
     <<5118, 5119>>, <<5760, 5760>>, <<5789, 5791>>, <<5881, 5887>>, <<5910, 5918>>,
     <<5943, 5951>>, <<5972, 5983>>, <<5997, 5997>>, <<6001, 6001>>, <<6004, 6015>>,
     <<6110, 6111>>, <<6122, 6127>>, <<6138, 6143>>, <<6158, 6158>>, <<6170, 6175>>,
     <<6265, 6271>>, <<6315, 6319>>, <<6390, 6399>>, <<6431, 6431>>, <<6444, 6447>>,
     <<6460, 6463>>, <<6465, 6467>>, <<6510, 6511>>, <<6517, 6527>>, <<6572, 6575>>,
     <<6602, 6607>>, <<6619, 6621>>, <<6684, 6685>>, <<6751, 6751>>, <<6781, 6782>>,
     <<6794, 6799>>, <<6810, 6815>>, <<6830, 6831>>, <<6863, 6911>>, <<6989, 6991>>,
     <<7039, 7039>>, <<7156, 7163>>, <<7224, 7226>>, <<7242, 7244>>, <<7305, 7311>>,
     <<7355, 7356>>, <<7368, 7375>>, <<7419, 7423>>, <<7958, 7959>>, <<7966, 7967>>,
     <<8006, 8007>>, <<8014, 8015>>, <<8024, 8024>>, <<8026, 8026>>, <<8028, 8028>>,
     <<8030, 8030>>, <<8062, 8063>>, <<8117, 8117>>, <<8133, 8133>>, <<8148, 8149>>,
     <<8156, 8156>>, <<8176, 8177>>, <<8181, 8181>>, <<8191, 8207>>, <<8232, 8239>>,
     <<8287, 8303>>, <<8306, 8307>>, <<8335, 8335>>, <<8349, 8351>>, <<8385, 8399>>,
     <<8433, 8447>>, <<8588, 8591>>, <<9255, 9279>>, <<9291, 9311>>, <<11124, 11125>>,
     <<11158, 11158>>, <<11508, 11512>>, <<11558, 11558>>, <<11560, 11564>>,
     <<11566, 11567>>, <<11624, 11630>>, <<11633, 11646>>, <<11671, 11679>>,
     <<11687, 11687>>, <<11695, 11695>>, <<11703, 11703>>, <<11711, 11711>>,
     <<11719, 11719>>, <<11727, 11727>>, <<11735, 11735>>, <<11743, 11743>>,
     <<11870, 11903>>, <<11930, 11930>>, <<12020, 12031>>, <<12246, 12271>>,
     <<12284, 12288>>, <<12352, 12352>>, <<12439, 12440>>, <<12544, 12548>>,
     <<12592, 12592>>, <<12687, 12687>>, <<12772, 12783>>, <<12831, 12831>>,
     <<42125, 42127>>, <<42183, 42191>>, <<42540, 42559>>, <<42744, 42751>>,
     <<42955, 42959>>, <<42962, 42962>>, <<42964, 42964>>, <<42970, 42993>>,
     <<43053, 43055>>, <<43066, 43071>>, <<43128, 43135>>, <<43206, 43213>>,
     <<43226, 43231>>, <<43348, 43358>>, <<43389, 43391>>, <<43470, 43470>>,
     <<43482, 43485>>, <<43519, 43519>>, <<43575, 43583>>, <<43598, 43599>>,
     <<43610, 43611>>, <<43715, 43738>>, <<43767, 43776>>, <<43783, 43784>>,
     <<43791, 43792>>, <<43799, 43807>>, <<43815, 43815>>, <<43823, 43823>>,
     <<43884, 43887>>, <<44014, 44015>>, <<44026, 44031>>, <<55204, 55215>>,
     <<55239, 55242>>, <<55292, 63743>>, <<64110, 64111>>, <<64218, 64255>>,
     <<64263, 64274>>, <<64280, 64284>>, <<64311, 64311>>, <<64317, 64317>>,
     <<64319, 64319>>, <<64322, 64322>>, <<64325, 64325>>, <<64451, 64466>>,
     <<64912, 64913>>, <<64968, 64974>>, <<64976, 65007>>, <<65050, 65055>>,
     <<65107, 65107>>, <<65127, 65127>>, <<65132, 65135>>, <<65141, 65141>>,
     <<65277, 65280>>, <<65471, 65473>>, <<65480, 65481>>, <<65488, 65489>>,
     <<65496, 65497>>, <<65501, 65503>>, <<65511, 65511>>, <<65519, 65531>>,
     <<65534, 65535>>, <<65548, 65548>>, <<65575, 65575>>, <<65595, 65595>>,
     <<65598, 65598>>, <<65614, 65615>>, <<65630, 65663>>, <<65787, 65791>>,
     <<65795, 65798>>, <<65844, 65846>>, <<65935, 65935>>, <<65949, 65951>>,
     <<65953, 65999>>, <<66046, 66175>>, <<66205, 66207>>, <<66257, 66271>>,
     <<66300, 66303>>, <<66340, 66348>>, <<66379, 66383>>, <<66427, 66431>>,
     <<66462, 66462>>, <<66500, 66503>>, <<66518, 66559>>, <<66718, 66719>>,
     <<66730, 66735>>, <<66772, 66775>>, <<66812, 66815>>, <<66856, 66863>>,
     <<66916, 66926>>, <<66939, 66939>>, <<66955, 66955>>, <<66963, 66963>>,
     <<66966, 66966>>, <<66978, 66978>>, <<66994, 66994>>, <<67002, 67002>>,
     <<67005, 67071>>, <<67383, 67391>>, <<67414, 67423>>, <<67432, 67455>>,
     <<67462, 67462>>, <<67505, 67505>>, <<67515, 67583>>, <<67590, 67591>>,
     <<67593, 67593>>, <<67638, 67638>>, <<67641, 67643>>, <<67645, 67646>>,
     <<67670, 67670>>, <<67743, 67750>>, <<67760, 67807>>, <<67827, 67827>>,
     <<67830, 67834>>, <<67868, 67870>>, <<67898, 67902>>, <<67904, 67967>>,
     <<68024, 68027>>, <<68048, 68049>>, <<68100, 68100>>, <<68103, 68107>>,
     <<68116, 68116>>, <<68120, 68120>>, <<68150, 68151>>, <<68155, 68158>>,
     <<68169, 68175>>, <<68185, 68191>>, <<68256, 68287>>, <<68327, 68330>>,
     <<68343, 68351>>, <<68406, 68408>>, <<68438, 68439>>, <<68467, 68471>>,
     <<68498, 68504>>, <<68509, 68520>>, <<68528, 68607>>, <<68681, 68735>>,
     <<68787, 68799>>, <<68851, 68857>>, <<68904, 68911>>, <<68922, 69215>>,
     <<69247, 69247>>, <<69290, 69290>>, <<69294, 69295>>, <<69298, 69375>>,
     <<69416, 69423>>, <<69466, 69487>>, <<69514, 69551>>, <<69580, 69599>>,
     <<69623, 69631>>, <<69710, 69713>>, <<69750, 69758>>, <<69821, 69821>>,
     <<69827, 69839>>, <<69865, 69871>>, <<69882, 69887>>, <<69941, 69941>>,
     <<69960, 69967>>, <<70007, 70015>>, <<70112, 70112>>, <<70133, 70143>>,
     <<70162, 70162>>, <<70207, 70271>>, <<70279, 70279>>, <<70281, 70281>>,
     <<70286, 70286>>, <<70302, 70302>>, <<70314, 70319>>, <<70379, 70383>>,
     <<70394, 70399>>, <<70404, 70404>>, <<70413, 70414>>, <<70417, 70418>>,
     <<70441, 70441>>, <<70449, 70449>>, <<70452, 70452>>, <<70458, 70458>>,
     <<70469, 70470>>, <<70473, 70474>>, <<70478, 70479>>, <<70481, 70486>>,
     <<70488, 70492>>, <<70500, 70501>>, <<70509, 70511>>, <<70517, 70655>>,
     <<70748, 70748>>, <<70754, 70783>>, <<70856, 70863>>, <<70874, 71039>>,
     <<71094, 71095>>, <<71134, 71167>>, <<71237, 71247>>, <<71258, 71263>>,
     <<71277, 71295>>, <<71354, 71359>>, <<71370, 71423>>, <<71451, 71452>>,
     <<71468, 71471>>, <<71495, 71679>>, <<71740, 71839>>, <<71923, 71934>>,
     <<71943, 71944>>, <<71946, 71947>>, <<71956, 71956>>, <<71959, 71959>>,
     <<71990, 71990>>, <<71993, 71994>>, <<72007, 72015>>, <<72026, 72095>>,
     <<72104, 72105>>, <<72152, 72153>>, <<72165, 72191>>, <<72264, 72271>>,
     <<72355, 72367>>, <<72441, 72703>>, <<72713, 72713>>, <<72759, 72759>>,
     <<72774, 72783>>, <<72813, 72815>>, <<72848, 72849>>, <<72872, 72872>>,
     <<72887, 72959>>, <<72967, 72967>>, <<72970, 72970>>, <<73015, 73017>>,
     <<73019, 73019>>, <<73022, 73022>>, <<73032, 73039>>, <<73050, 73055>>,
     <<73062, 73062>>, <<73065, 73065>>, <<73103, 73103>>, <<73106, 73106>>,
     <<73113, 73119>>, <<73130, 73439>>, <<73465, 73647>>, <<73649, 73663>>,
     <<73714, 73726>>, <<74650, 74751>>, <<74863, 74863>>, <<74869, 74879>>,
     <<75076, 77711>>, <<77811, 77823>>, <<78895, 82943>>, <<83527, 92159>>,
     <<92729, 92735>>, <<92767, 92767>>, <<92778, 92781>>, <<92863, 92863>>,
     <<92874, 92879>>, <<92910, 92911>>, <<92918, 92927>>, <<92998, 93007>>,
     <<93018, 93018>>, <<93026, 93026>>, <<93048, 93052>>, <<93072, 93759>>,
     <<93851, 93951>>, <<94027, 94030>>, <<94088, 94094>>, <<94112, 94175>>,
     <<94181, 94191>>, <<94194, 94207>>, <<100344, 100351>>, <<101590, 101631>>,
     <<101641, 110575>>, <<110580, 110580>>, <<110588, 110588>>, <<110591, 110591>>,
     <<110883, 110927>>, <<110931, 110947>>, <<110952, 110959>>, <<111356, 113663>>,
     <<113771, 113775>>, <<113789, 113791>>, <<113801, 113807>>, <<113818, 113819>>,
     <<113824, 118527>>, <<118574, 118575>>, <<118599, 118607>>, <<118724, 118783>>,
     <<119030, 119039>>, <<119079, 119080>>, <<119155, 119162>>, <<119275, 119295>>,
     <<119366, 119519>>, <<119540, 119551>>, <<119639, 119647>>, <<119673, 119807>>,
     <<119893, 119893>>, <<119965, 119965>>, <<119968, 119969>>, <<119971, 119972>>,
     <<119975, 119976>>, <<119981, 119981>>, <<119994, 119994>>, <<119996, 119996>>,
     <<120004, 120004>>, <<120070, 120070>>, <<120075, 120076>>, <<120085, 120085>>,
     <<120093, 120093>>, <<120122, 120122>>, <<120127, 120127>>, <<120133, 120133>>,
     <<120135, 120137>>, <<120145, 120145>>, <<120486, 120487>>, <<120780, 120781>>,
     <<121484, 121498>>, <<121504, 121504>>, <<121520, 122623>>, <<122655, 122879>>,
     <<122887, 122887>>, <<122905, 122906>>, <<122914, 122914>>, <<122917, 122917>>,
     <<122923, 123135>>, <<123181, 123183>>, <<123198, 123199>>, <<123210, 123213>>,
     <<123216, 123535>>, <<123567, 123583>>, <<123642, 123646>>, <<123648, 124895>>,
     <<124903, 124903>>, <<124908, 124908>>, <<124911, 124911>>, <<124927, 124927>>,
     <<125125, 125126>>, <<125143, 125183>>, <<125260, 125263>>, <<125274, 125277>>,
     <<125280, 126064>>, <<126133, 126208>>, <<126270, 126463>>, <<126468, 126468>>,
     <<126496, 126496>>, <<126499, 126499>>, <<126501, 126502>>, <<126504, 126504>>,
     <<126515, 126515>>, <<126520, 126520>>, <<126522, 126522>>, <<126524, 126529>>,
     <<126531, 126534>>, <<126536, 126536>>, <<126538, 126538>>, <<126540, 126540>>,
     <<126544, 126544>>, <<126547, 126547>>, <<126549, 126550>>, <<126552, 126552>>,
     <<126554, 126554>>, <<126556, 126556>>, <<126558, 126558>>, <<126560, 126560>>,
     <<126563, 126563>>, <<126565, 126566>>, <<126571, 126571>>, <<126579, 126579>>,
     <<126584, 126584>>, <<126589, 126589>>, <<126591, 126591>>, <<126602, 126602>>,
     <<126620, 126624>>, <<126628, 126628>>, <<126634, 126634>>, <<126652, 126703>>,
     <<126706, 126975>>, <<127020, 127023>>, <<127124, 127135>>, <<127151, 127152>>,
     <<127168, 127168>>, <<127184, 127184>>, <<127222, 127231>>, <<127406, 127461>>,
     <<127491, 127503>>, <<127548, 127551>>, <<127561, 127567>>, <<127570, 127583>>,
     <<127590, 127743>>, <<128728, 128732>>, <<128749, 128751>>, <<128765, 128767>>,
     <<128884, 128895>>, <<128985, 128991>>, <<129004, 129007>>, <<129009, 129023>>,
     <<129036, 129039>>, <<129096, 129103>>, <<129114, 129119>>, <<129160, 129167>>,
     <<129198, 129199>>, <<129202, 129279>>, <<129620, 129631>>, <<129646, 129647>>,
     <<129653, 129655>>, <<129661, 129663>>, <<129671, 129679>>, <<129709, 129711>>,
     <<129723, 129727>>, <<129734, 129743>>, <<129754, 129759>>, <<129768, 129775>>,
     <<129783, 129791>>, <<129939, 129939>>, <<129995, 130031>>, <<130042, 131071>>,
     <<173792, 173823>>, <<177977, 177983>>, <<178206, 178207>>, <<183970, 183983>>,
     <<191457, 194559>>, <<195102, 196607>>, <<201547, 917759>>, <<918000, 1114111>>}

\* the characters among them that Unicode 15.1 has assigned since, all to
\* printable categories, as ranges first-last
AssignedSince14 ==
    {<<3315, 3315>>, <<3790, 3790>>, <<12284, 12287>>, <<12783, 12783>>, <<69373, 69375>>,
     <<70207, 70209>>, <<72448, 72457>>, <<73472, 73488>>, <<73490, 73530>>,
     <<73534, 73561>>, <<78895, 78895>>, <<78912, 78933>>, <<110898, 110898>>,
     <<110933, 110933>>, <<119488, 119507>>, <<122661, 122666>>, <<122928, 122989>>,
     <<123023, 123023>>, <<124112, 124153>>, <<128732, 128732>>, <<128884, 128886>>,
     <<128891, 128895>>, <<128985, 128985>>, <<129653, 129655>>, <<129671, 129672>>,
     <<129709, 129711>>, <<129723, 129725>>, <<129727, 129727>>, <<129742, 129743>>,
     <<129754, 129755>>, <<129768, 129768>>, <<129783, 129784>>, <<177977, 177977>>,
     <<191472, 192093>>, <<201552, 205743>>}

\* repr() escapes the character
Unprintable(c) ==
    \/ c < 32
    \/ /\ c > 126
       /\ \E r \in UnprintableRanges : r[1] <= c /\ c <= r[2]
       /\ ~(python = "3.13" /\ \E r \in AssignedSince14 : r[1] <= c /\ c <= r[2])

\* one character of a str as repr() writes it between the quotes; dq: the
\* quotes are double quotes
ReprChar(c, dq) ==
    IF c = 92 THEN Str("\\\\")
    ELSE IF c = 39 /\ ~dq THEN Str("\\'")
    ELSE IF c = 9 THEN Str("\\t")
    ELSE IF c = 10 THEN Str("\\n")
    ELSE IF c = 13 THEN Str("\\r")
    ELSE IF ~Unprintable(c) THEN <<c>>
    ELSE IF c < 256 THEN Str("\\x") \o Hex(c, 2)
    ELSE IF c < 65536 THEN Str("\\u") \o Hex(c, 4)
    ELSE Str("\\U") \o Hex(c, 8)

\* the characters of s as repr() writes them, one half of s after the other
\* (e is s)
RECURSIVE ReprChars(_, _)
ReprChars(s, dq) ==
    The({IF e = <<>> THEN <<>>
         ELSE IF Len(e) = 1 THEN ReprChar(e[1], dq)
         ELSE ReprChars(SubSeq(e, 1, Len(e) \div 2), dq)
              \o ReprChars(SubSeq(e, Len(e) \div 2 + 1, Len(e)), dq) :
         e \in {s}})

\* repr() of a str: single quotes, double quotes when it holds ' and no "
ReprStr(s) ==
    LET dq == (\E i \in 1..Len(s) : s[i] = 39) /\ ~(\E i \in 1..Len(s) : s[i] = 34)
        quote == IF dq THEN 34 ELSE 39
    IN  <<quote>> \o ReprChars(s, dq) \o <<quote>>

\* repr() of None, an int, a str, a list, a tuple, a dict (items in insertion
\* order): the text, or the ValueError of the first int in it that str()
\* does not write
RECURSIVE Repr(_), ReprSeq(_), ReprItems(_, _)
Repr(v) ==
    IF IsNone(v) THEN Return(Str("None"))
    ELSE IF IsInt(v) THEN IntText(v)
    ELSE IF IsStr(v) THEN Return(ReprStr(v.str))
    ELSE IF IsList(v) THEN Cat(Return(Str("[")), Cat(ReprSeq(v.list), Return(Str("]"))))
    ELSE IF IsTuple(v)
    THEN Cat(Return(Str("(")),
             Cat(ReprSeq(v.tuple),
                 Return((IF Len(v.tuple) = 1 THEN Str(",") ELSE <<>>) \o Str(")"))))
    ELSE Cat(Return(Str("{")), Cat(ReprItems(v.dict, v.keys), Return(Str("}"))))

ReprSeq(xs) ==
    IF xs = <<>> THEN Return(<<>>)
    ELSE IF Len(xs) = 1 THEN Repr(xs[1])
    ELSE Cat(Repr(xs[1]), Cat(Return(Str(", ")), ReprSeq(Tail(xs))))

ReprItems(f, keys) ==
    IF keys = <<>> THEN Return(<<>>)
    ELSE Cat(Return(ReprStr(keys[1]) \o Str(": ")),
             Cat(Repr(f[keys[1]]),
                 IF Len(keys) = 1 THEN Return(<<>>)
                 ELSE Cat(Return(Str(", ")), ReprItems(f, Tail(keys)))))

\* a value inside an f-string: a str as it is, anything else as str() gives
\* it, which for these values is what repr() gives
Format(v) == IF IsStr(v) THEN Return(v.str) ELSE Repr(v)

\* the text of an f-string, parts being its literal texts (each a str) and
\* the values of its fields, in order; FString is the str it gives, or the
\* exception of the first field that raised
RECURSIVE FText(_)
FText(parts) ==
    IF parts = <<>> THEN Return(<<>>) ELSE Cat(Format(parts[1]), FText(Tail(parts)))

FString(parts) ==
    The({IF Raised(text) THEN text ELSE Return(PyStr(text.ret)) : text \in {FText(parts)}})

\* one character of a str as json.dumps() writes it between the quotes: all
\* but printable ASCII is escaped, a character above U+FFFF as two surrogates
JsonChar(c) ==
    IF c = 34 THEN Str("\\\"")
    ELSE IF c = 92 THEN Str("\\\\")
    ELSE IF c = 10 THEN Str("\\n")
    ELSE IF c = 13 THEN Str("\\r")
    ELSE IF c = 9 THEN Str("\\t")
    ELSE IF c = 12 THEN Str("\\f")
    ELSE IF c = 8 THEN Str("\\b")
    ELSE IF c >= 32 /\ c <= 126 THEN <<c>>
    ELSE IF c < 65536 THEN Str("\\u") \o Hex(c, 4)
    ELSE Str("\\u") \o Hex(55296 + ((c - 65536) \div 1024), 4)
         \o Str("\\u") \o Hex(56320 + ((c - 65536) % 1024), 4)

\* the characters of s as json.dumps() writes them, one half of s after the
\* other (e is s)
RECURSIVE JsonChars(_)
JsonChars(s) ==
    The({IF e = <<>> THEN <<>>
         ELSE IF Len(e) = 1 THEN JsonChar(e[1])
         ELSE JsonChars(SubSeq(e, 1, Len(e) \div 2))
              \o JsonChars(SubSeq(e, Len(e) \div 2 + 1, Len(e))) :
         e \in {s}})

JsonStr(s) == <<34>> \o JsonChars(s) \o <<34>>

\* the indentation of nesting level n under indent=2
RECURSIVE Indent(_)
Indent(n) == IF n = 0 THEN <<>> ELSE Str("  ") \o Indent(n - 1)

\* json.dumps(v, indent=2), v at nesting level n; a tuple is written as a
\* list: the text, or the ValueError of the first int in it that str() does
\* not write
RECURSIVE json_dumps(_, _), DumpsSeq(_, _), DumpsItems(_, _, _)
json_dumps(v, n) ==
    IF IsNone(v) THEN Return(Str("null"))
    ELSE IF IsInt(v) THEN IntText(v)
    ELSE IF IsStr(v) THEN Return(JsonStr(v.str))
    ELSE IF IsList(v) \/ IsTuple(v)
    THEN IF Items(v) = <<>> THEN Return(Str("[]"))
         ELSE Cat(Return(Str("[") \o <<10>>),
                  Cat(DumpsSeq(Items(v), n + 1), Return(<<10>> \o Indent(n) \o Str("]"))))
    ELSE IF v.keys = <<>> THEN Return(Str("{}"))
         ELSE Cat(Return(Str("{") \o <<10>>),
                  Cat(DumpsItems(v.dict, v.keys, n + 1),
                      Return(<<10>> \o Indent(n) \o Str("}"))))

DumpsSeq(xs, n) ==
    Cat(Return(Indent(n)),
        Cat(json_dumps(xs[1], n),
            IF Len(xs) = 1 THEN Return(<<>>)
            ELSE Cat(Return(Str(",") \o <<10>>), DumpsSeq(Tail(xs), n))))

DumpsItems(f, keys, n) ==
    Cat(Return(Indent(n) \o JsonStr(keys[1]) \o Str(": ")),
        Cat(json_dumps(f[keys[1]], n),
            IF Len(keys) = 1 THEN Return(<<>>)
            ELSE Cat(Return(Str(",") \o <<10>>), DumpsItems(f, Tail(keys), n))))

\* the error handlers of sys.stdout, which encodes as UTF-8: "strict" under a
\* UTF-8 locale, "surrogateescape" under the C locale
StdoutErrors == {"strict", "surrogateescape"}

\* a surrogate, U+D800 to U+DFFF: no character, UTF-8 has no bytes for it
IsSurrogate(c) == 55296 <= c /\ c <= 57343

\* the handler writes the character: surrogateescape turns U+DC80 to U+DCFF
\* into the bytes 80 to FF
Encodable(c, errors) ==
    ~IsSurrogate(c) \/ (errors = "surrogateescape" /\ 56448 <= c /\ c <= 56575)

\* str(e) of the UnicodeEncodeError for the surrogates of text from position
\* first on (positions count from 0): one is shown, a run is given by its ends
EncodeErrorMsg(text, first) ==
    LET after == {i \in (first + 1)..Len(text) : ~IsSurrogate(text[i])}
        last == IF after = {} THEN Len(text)
                ELSE (CHOOSE i \in after : \A j \in after : i <= j) - 1
    IN  Str("'utf-8' codec can't encode character")
        \o (IF last = first
            THEN Str(" '\\u") \o Hex(text[first], 4) \o Str("' in position ")
                 \o IntToStr(first - 1)
            ELSE Str("s in position ") \o IntToStr(first - 1) \o Str("-")
                 \o IntToStr(last - 1))
        \o Str(": surrogates not allowed")

\* print(v) on a sys.stdout with the error handler errors: str(v) and a
\* newline are written; if str(v) raises, or holds a character the handler
\* does not write, nothing is written and the exception is raised, the
\* ValueError of str() or UnicodeEncodeError (text is str(v))
print(v, errors) ==
    The({IF Raised(text) THEN [printed |-> <<>>, outcome |-> text]
         ELSE LET bad == {i \in 1..Len(text.ret) : ~Encodable(text.ret[i], errors)}
              IN  IF bad = {}
                  THEN [printed |-> text.ret \o <<10>>, outcome |-> Return(PyNone)]
                  ELSE [printed |-> <<>>,
                        outcome |-> Raise("UnicodeEncodeError",
                                          EncodeErrorMsg(text.ret,
                                              CHOOSE i \in bad : \A j \in bad : i <= j))] :
         text \in {Format(v)}})

-----------------------------------------------------------------------------
(* Built-ins the builder uses: str.split, int(), iteration *)

\* the positions of sep in s
SepPositions(s, sep) == {i \in 1..Len(s) : s[i] = sep}

\* the position of the k-th sep in s; 0 before the first, Len(s) + 1 after the last
SepAt(s, sep, k) ==
    IF k = 0 THEN 0
    ELSE IF k > Cardinality(SepPositions(s, sep)) THEN Len(s) + 1
    ELSE CHOOSE i \in SepPositions(s, sep) :
            Cardinality({j \in SepPositions(s, sep) : j < i}) = k - 1

\* s.split(sep) for a one-character sep: the parts between the separators, in
\* order; n separators give n + 1 parts, empty parts included
Split(s, sep) ==
    [k \in 1..(Cardinality(SepPositions(s, sep)) + 1) |->
        SubSeq(s, SepAt(s, sep, k - 1) + 1, SepAt(s, sep, k) - 1)]

\* the blanks int() skips around a literal: tab, line feed, vertical tab, form
\* feed, carriage return, space, and the Unicode white space above U+007F.
\* U+001C to U+001F, which str.strip() removes, are not skipped by int().
IntBlanks ==
    (9..13) \cup {32, 133, 160, 5760} \cup (8192..8202) \cup {8232, 8233, 8239, 8287, 12288}

\* the digits zero of Unicode 15.1 (category Nd): each is followed by its
\* digits 1 to 9
DecimalZeros ==
    {48, 1632, 1776, 1984, 2406, 2534, 2662, 2790, 2918, 3046, 3174, 3302, 3430, 3558,
     3664, 3792, 3872, 4160, 4240, 6112, 6160, 6470, 6608, 6784, 6800, 6992, 7088, 7232,
     7248, 42528, 43216, 43264, 43472, 43504, 43600, 44016, 65296, 66720, 68912, 69734,
     69872, 69942, 70096, 70384, 70736, 70864, 71248, 71360, 71472, 71904, 72016, 72784,
     73040, 73120, 73552, 92768, 92864, 93008, 120782, 120792, 120802, 120812, 120822,
     123200, 123632, 124144, 125264, 130032}

\* those that Unicode 14.0 does not have: the Kawi digits, from U+11F50, and
\* the Nag Mundari digits, from U+1E4F0, were added by Unicode 15.0
ZerosSince14 == {73552, 124144}

\* the interpreter reads c as a decimal digit: an ASCII digit, or above
\* U+007F a digit of a zero its Unicode version has
IsDigit(c) ==
    IF c < 128 THEN 48 <= c /\ c <= 57
    ELSE \E z \in DecimalZeros :
            z <= c /\ c <= z + 9 /\ (z \in ZerosSince14 => python = "3.13")

DigitValue(c) == c - (CHOOSE z \in DecimalZeros : z <= c /\ c <= z + 9)

\* the literal int() reads: s without its leading and trailing blanks
SkipBlanks(s) ==
    LET kept == {i \in 1..Len(s) : s[i] \notin IntBlanks}
    IN  IF kept = {} THEN <<>>
        ELSE SubSeq(s, CHOOSE i \in kept : \A j \in 1..(i - 1) : s[j] \in IntBlanks,
                       CHOOSE i \in kept : \A j \in (i + 1)..Len(s) : s[j] \in IntBlanks)

\* the digits and underscores b begins with
DigitRun(b) ==
    LET others == {i \in 1..Len(b) : ~(IsDigit(b[i]) \/ b[i] = 95)}
    IN  IF others = {} THEN b
        ELSE SubSeq(b, 1, (CHOOSE i \in others : \A j \in others : i <= j) - 1)

\* the underscores of a run are single and stand between digits
RunOK(r) ==
    /\ r # <<>> => (r[1] # 95 /\ r[Len(r)] # 95)
    /\ \A i \in 1..(Len(r) - 1) : ~(r[i] = 95 /\ r[i + 1] = 95)

\* the number written by at most ten ASCII digits
RECURSIVE DigitsValue(_)
DigitsValue(ds) ==
    IF ds = <<>> THEN 0
    ELSE 10 * DigitsValue(SubSeq(ds, 1, Len(ds) - 1)) + (ds[Len(ds)] - 48)

\* the decimal text s, without leading zeros, writes a number below 2^31
BelowTwo31(s) ==
    \/ Len(s) < 10
    \/ /\ Len(s) = 10
       /\ LET max == Str("2147483647")
          IN  ~\E i \in 1..10 : s[i] > max[i] /\ \A j \in 1..(i - 1) : s[j] = max[j]

\* the int written by the digits ds (of any script), negative if neg
IntOfDigits(neg, ds) ==
    The({LET significant == {i \in 1..Len(text) : text[i] # 48}
         IN  IF significant = {} THEN PyInt(0)
             ELSE The({IF BelowTwo31(s)
                       THEN PyInt(IF neg THEN 0 - DigitsValue(s) ELSE DigitsValue(s))
                       ELSE PyLong((IF neg THEN <<45>> ELSE <<>>) \o s) :
                       s \in {SubSeq(text,
                                     CHOOSE i \in significant : \A j \in significant : i <= j,
                                     Len(text))}}) :
         text \in {[i \in 1..Len(ds) |-> 48 + DigitValue(ds[i])]}})

\* the first n characters of s
Truncated(s, n) == IF Len(s) > n THEN SubSeq(s, 1, n) ELSE s

\* int(x): an int is returned as it is; a str has its blanks skipped, takes an
\* optional sign and must then be decimal digits (single underscores between
\* them allowed), at most int_max_str_digits of them, else ValueError (the
\* message shows the first 200 characters of repr(x)); anything else
\* TypeError. For more than int_max_str_digits digits followed by a character
\* that is none, CPython 3.11 reports the number of digits, CPython 3.13 the
\* invalid literal
int(x) ==
    IF IsInt(x) THEN Return(x)
    ELSE IF IsStr(x) THEN
        The({LET signed == t # <<>> /\ t[1] \in {43, 45}
                 invalid == Raise("ValueError",
                                  Str("invalid literal for int() with base 10: ")
                                  \o Truncated(ReprStr(x.str), 200))
             IN  The({The({IF ~RunOK(r) THEN invalid
                           ELSE IF /\ Len(ds) > int_max_str_digits
                                   /\ \/ python = "3.11"
                                      \/ Len(r) = Len(t) - (IF signed THEN 1 ELSE 0)
                           THEN Raise("ValueError",
                                      Str("Exceeds the limit (") \o IntToStr(int_max_str_digits)
                                      \o Str(" digits) for integer string conversion: value has ")
                                      \o IntToStr(Len(ds))
                                      \o Str(" digits; use sys.set_int_max_str_digits() ")
                                      \o Str("to increase the limit"))
                           ELSE IF ds = <<>> \/ Len(r) # Len(t) - (IF signed THEN 1 ELSE 0)
                           THEN invalid
                           ELSE Return(IntOfDigits(signed /\ t[1] = 45, ds)) :
                           ds \in {SelectSeq(r, IsDigit)}}) :
                      r \in {DigitRun(IF signed THEN Tail(t) ELSE t)}}) :
             t \in {SkipBlanks(x.str)}})
    ELSE Raise("TypeError",
               Str("int() argument must be a string, a bytes-like object or a real number, not '")
               \o Str(TypeName(x)) \o Str("'"))

\* what "for x in v" goes through: the elements of a list or tuple, the
\* characters of a str, the keys of a dict; TypeError for None and an int
iter(v) ==
    IF IsList(v) \/ IsTuple(v) THEN Return(Items(v))
    ELSE IF IsStr(v) THEN Return([i \in 1..Len(v.str) |-> PyStr(<<v.str[i]>>)])
    ELSE IF IsDict(v) THEN Return([i \in 1..Len(v.keys) |-> PyStr(v.keys[i])])
    ELSE Raise("TypeError", Str("'") \o Str(TypeName(v)) \o Str("' object is not iterable"))

-----------------------------------------------------------------------------
(* The request payload builder *)

RESOURCE_PROVIDER == PyStr(Str("Microsoft.AzureImageTestingForLinux"))

API_VERSION == PyStr(Str("2023-08-01-preview"))

\* the f-string of lines 12-16; the arguments are Python values
_get_endpoint(segment, resource_group, subscription_id) ==
    FString(<<PyStr(Str("https://eastus2euap.management.azure.com/subscriptions/")),
              subscription_id, PyStr(Str("/resourceGroups/")), resource_group,
              PyStr(Str("/providers/")), RESOURCE_PROVIDER, PyStr(Str("/")), segment,
              PyStr(Str("?api-version=")), API_VERSION>>)

\* int(x) for each x of xs, in order: the first one int() rejects raises
IntEach(xs) ==
    LET ints == [i \in 1..Len(xs) |-> int(xs[i])]
        rejected == {i \in 1..Len(xs) : Raised(ints[i])}
    IN  IF rejected # {}
        THEN ints[CHOOSE i \in rejected : \A j \in rejected : i <= j]
        ELSE Return(PyList([i \in 1..Len(xs) |-> ints[i].ret]))

\* [int(x) for x in test_priorities]
IntAll(test_priorities) ==
    The({IF Raised(xs) THEN xs ELSE IntEach(xs.ret) : xs \in {iter(test_priorities)}})

\* The objects of a call of _create_template. A frame f maps the name of a
\* variable of the function to the object bound to it: the six parameters on
\* entry, template and selection once they are assigned. A list or dict holds
\* the object of a variable as the reference Ref(name): the object is shared
\* with the variable, not copied, as in Python.
Ref(name) == [ref |-> name]

IsRef(v) == "ref" \in DOMAIN v

\* v with each reference replaced by the object it refers to (e is v)
RECURSIVE Deref(_, _)
Deref(f, v) ==
    The({IF IsRef(e) THEN Deref(f, f[e.ref])
         ELSE IF IsList(e) THEN PyList([i \in 1..Len(e.list) |-> Deref(f, e.list[i])])
         ELSE IF IsTuple(e) THEN PyTuple([i \in 1..Len(e.tuple) |-> Deref(f, e.tuple[i])])
         ELSE IF IsDict(e) THEN PyDict([k \in DOMAIN e.dict |-> Deref(f, e.dict[k])], e.keys)
         ELSE e :
         e \in {v}})

\* name[key] = v: the dict that the variable names is written, nothing else is
\* (here and in the statements below, e is the frame f)
SetItem(f, name, key, v) == The({[e EXCEPT ![name] = Put(e[name], key, v)] : e \in {f}})

\* lines 22-24: template = {"templateTags": []}
template_new(f) == ("template" :> Put(EmptyDict, Str("templateTags"), PyList(<<>>))) @@ f

\* line 26: selection = dict()
selection_new(f) == ("selection" :> EmptyDict) @@ f

\* the priorities converted in place, test_priorities[:] = [int(x) for x in
\* test_priorities], and the list of the caller put into the selection
selection_casePriority_InPlace(f) ==
    The({IF Truthy(e.test_priorities)
         THEN The({IF Raised(ints) THEN ints
                   ELSE Return(SetItem([e EXCEPT !.test_priorities = ints.ret], "selection",
                                       Str("casePriority"), Ref("test_priorities"))) :
                   ints \in {IntAll(e.test_priorities)}})
         ELSE Return(e) :
         e \in {f}})

\* lines 27-28: if test_priorities: selection["casePriority"] = [int(x) for x
\* in test_priorities]. The frame after the statement is returned, or the
\* exception of int() is raised
selection_casePriority(f) ==
    The({IF Truthy(e.test_priorities)
         THEN The({IF Raised(ints) THEN ints
                   ELSE Return(SetItem(e, "selection", Str("casePriority"), ints.ret)) :
                   ints \in {IntAll(e.test_priorities)}})
         ELSE Return(e) :
         e \in {f}})

\* "elif test_cases" for "if test_cases": the cases are dropped when priorities are given
selection_caseName_Elif(f) ==
    The({IF ~Truthy(e.test_priorities) /\ Truthy(e.test_cases)
         THEN SetItem(e, "selection", Str("caseName"), Ref("test_cases"))
         ELSE e :
         e \in {f}})

\* lines 29-30: if test_cases: selection["caseName"] = test_cases
selection_caseName(f) ==
    The({IF Truthy(e.test_cases)
         THEN SetItem(e, "selection", Str("caseName"), Ref("test_cases"))
         ELSE e :
         e \in {f}})

\* lines 32-33: if selection: template["selections"] = [selection]
template_selections(f) ==
    The({IF Truthy(e.selection)
         THEN SetItem(e, "template", Str("selections"), PyList(<<Ref("selection")>>))
         ELSE e :
         e \in {f}})

\* line 35: template["region"] = regions if regions else []
template_region(f) ==
    The({SetItem(e, "template", Str("region"),
                 IF Truthy(e.regions) THEN Ref("regions") ELSE PyList(<<>>)) :
         e \in {f}})

\* line 36: template["vmSize"] = [vm_size] if vm_size else []
template_vmSize(f) ==
    The({SetItem(e, "template", Str("vmSize"),
                 IF Truthy(e.vm_size) THEN PyList(<<Ref("vm_size")>>) ELSE PyList(<<>>)) :
         e \in {f}})

\* line 37: template["concurrency"] = concurrency
template_concurrency(f) == SetItem(f, "template", Str("concurrency"), Ref("concurrency"))

\* the names of the parameters of _create_template (lines 19-21)
Parameters == {"vm_size", "test_priorities", "test_cases", "location", "regions", "concurrency"}

\* the body of _create_template run from the frame f of its arguments: the
\* frame the statements leave, and the outcome, the template of line 39 with
\* all it holds, or the exception that ended the call at line 28
_create_template_run(f) ==
    The({The({IF Raised(o) THEN [frame |-> f2, outcome |-> o]
              ELSE The({[frame |-> f8, outcome |-> Return(Deref(f8, Ref("template")))] :
                        f8 \in {template_concurrency(template_vmSize(template_region(
                                    template_selections(selection_caseName(o.ret)))))}}) :
              o \in {selection_casePriority(f2)}}) :
         f2 \in {selection_new(template_new(f))}})

\* the objects of the arguments as the call has left them
ArgumentsAfter(run) == [p \in Parameters |-> Deref(run.frame, run.frame[p])]

_create_template(vm_size, test_priorities, test_cases, location, regions, concurrency) ==
    _create_template_run([vm_size |-> vm_size, test_priorities |-> test_priorities,
                          test_cases |-> test_cases, location |-> location,
                          regions |-> regions, concurrency |-> concurrency]).outcome

OnlyOneMsg ==
    Str("Only one of --vhd-sas-url or --marketplace-image-urn can be used for a given test job.")

BadUrnMsg ==
    Str("marketplace_image_urn should be in the format of 'publisher:offer:sku:version', got ")

NeitherMsg == Str("One of --vhd-sas-url or --marketplace-image-urn should be passed.")

\* marketplace_image_urn.split(":"): only a str has the method
SplitUrn(marketplace_image_urn) ==
    IF IsStr(marketplace_image_urn) THEN Return(Split(marketplace_image_urn.str, 58))
    ELSE Raise("AttributeError", Str("'") \o Str(TypeName(marketplace_image_urn))
                                 \o Str("' object has no attribute 'split'"))

\* a marketplace URN whose message leaves the URN out
MarketplaceImageOf_MsgWithoutUrn(image, marketplace_image_urn) ==
    The({IF Raised(image_parts) THEN image_parts
         ELSE IF Len(image_parts.ret) # 4
         THEN Raise("ValueError", BadUrnMsg)
         ELSE Return(Put(Put(Put(Put(Put(image, Str("type"), PyStr(Str("marketplace"))),
                     Str("publisher"), PyStr(image_parts.ret[1])),
                     Str("offer"), PyStr(image_parts.ret[2])),
                     Str("sku"), PyStr(image_parts.ret[3])),
                     Str("version"), PyStr(image_parts.ret[4]))) :
         image_parts \in {SplitUrn(marketplace_image_urn)}})

\* the parts unpacked in the wrong order
MarketplaceImageOf_OfferSkuSwapped(image, marketplace_image_urn) ==
    The({IF Raised(image_parts) THEN image_parts
         ELSE IF Len(image_parts.ret) # 4
         THEN Raise("ValueError", BadUrnMsg \o marketplace_image_urn.str)
         ELSE Return(Put(Put(Put(Put(Put(image, Str("type"), PyStr(Str("marketplace"))),
                     Str("publisher"), PyStr(image_parts.ret[1])),
                     Str("sku"), PyStr(image_parts.ret[2])),
                     Str("offer"), PyStr(image_parts.ret[3])),
                     Str("version"), PyStr(image_parts.ret[4]))) :
         image_parts \in {SplitUrn(marketplace_image_urn)}})

\* the marketplace branch (lines 242-249): the URN split on ":" into exactly 4
\* parts; in the f-string of the message the URN, which has been split, is a str
MarketplaceImageOf(image, marketplace_image_urn) ==
    The({IF Raised(image_parts) THEN image_parts
         ELSE IF Len(image_parts.ret) # 4
         THEN Raise("ValueError", BadUrnMsg \o marketplace_image_urn.str)
         ELSE Return(Put(Put(Put(Put(Put(image, Str("type"), PyStr(Str("marketplace"))),
                     Str("publisher"), PyStr(image_parts.ret[1])),
                     Str("offer"), PyStr(image_parts.ret[2])),
                     Str("sku"), PyStr(image_parts.ret[3])),
                     Str("version"), PyStr(image_parts.ret[4]))) :
         image_parts \in {SplitUrn(marketplace_image_urn)}})

\* the vhd branch with the url left out
VhdImageOf_NoUrl(image, vhd_sas_url) ==
    Return(Put(image, Str("type"), PyStr(Str("vhd"))))

\* the vhd branch (lines 251-252)
VhdImageOf(image, vhd_sas_url) ==
    Return(Put(Put(image, Str("type"), PyStr(Str("vhd"))), Str("url"), vhd_sas_url))

\* without the check that only one source is given: the marketplace URN wins
ImageOf_NoBothCheck(marketplace_image_urn, vhd_sas_url, vm_generation, architecture) ==
    LET image == Put(Put(EmptyDict, Str("vhdGeneration"), vm_generation),
                     Str("architecture"), architecture)
    IN  IF Truthy(marketplace_image_urn)
        THEN MarketplaceImageOf(image, marketplace_image_urn)
        ELSE IF Truthy(vhd_sas_url)
        THEN VhdImageOf(image, vhd_sas_url)
        ELSE Raise("ValueError", NeitherMsg)

\* the image dict of make_job_create_request (lines 235-254)
ImageOf(marketplace_image_urn, vhd_sas_url, vm_generation, architecture) ==
    LET image == Put(Put(EmptyDict, Str("vhdGeneration"), vm_generation),
                     Str("architecture"), architecture)
    IN  IF Truthy(marketplace_image_urn) /\ Truthy(vhd_sas_url)
        THEN Raise("ValueError", OnlyOneMsg)
        ELSE IF Truthy(marketplace_image_urn)
        THEN MarketplaceImageOf(image, marketplace_image_urn)
        ELSE IF Truthy(vhd_sas_url)
        THEN VhdImageOf(image, vhd_sas_url)
        ELSE Raise("ValueError", NeitherMsg)

\* the endpoint of line 231: the segment is the f-string f"jobs/{job_name}"
JobEndpoint(a) ==
    The({IF Raised(segment) THEN segment
         ELSE _get_endpoint(segment.ret, a.resource_group, a.subscription_id) :
         segment \in {FString(<<PyStr(Str("jobs/")), a.job_name>>)}})

\* a: the arguments by name; returns the pair (payload, endpoint) or raises
make_job_create_request(a) ==
    The({IF Raised(endpoint) THEN endpoint
         ELSE IF Raised(image) THEN image
         ELSE The({IF Raised(template) THEN template
                   ELSE Return([payload |->
                                    Put(Put(EmptyDict, Str("location"), a.location),
                                        Str("properties"),
                                        Put(Put(Put(EmptyDict,
                                                    Str("jobTemplateName"), a.template_name),
                                                Str("jobTemplateInstance"), template.ret),
                                            Str("image"), image.ret)),
                                endpoint |-> endpoint.ret]) :
                   template \in {_create_template(a.vm_size, a.test_priorities, a.test_cases,
                                                  a.location, a.region, a.concurrency)}}) :
         endpoint \in {JobEndpoint(a)},
         image \in {ImageOf(a.marketplace_image_urn, a.vhd_sas_url, a.vm_generation,
                            a.architecture)}})

-----------------------------------------------------------------------------
(* HTTP: the responses the two servers may give, and what the client does with one *)

\* requests.Response.raise_for_status(): HTTPError for a 4xx or 5xx status
\* (the text of the message is the library's and is left out)
raise_for_status(resp) ==
    IF resp.status >= 400 /\ resp.status < 600
    THEN Raise("HTTPError", Str("error status"))
    ELSE Return(PyNone)

ErrorBody == Put(EmptyDict, Str("error"), PyStr(Str("failed")))

\* an error body that is a bare string, the lone surrogate U+DC80: whether it
\* can be printed depends on the error handler of sys.stdout
SurrogateBody == PyStr(<<56448>>)

AuthResponses ==
    {[status |-> 200, json |-> Put(EmptyDict, Str("access_token"), PyStr(Str("tok")))],
     [status |-> 200, json |-> EmptyDict],
     [status |-> 401, json |-> ErrorBody],
     [status |-> 401, json |-> SurrogateBody],
     [status |-> 500, json |-> ErrorBody]}

ApiResponses ==
    {[status |-> 200, json |-> Put(EmptyDict, Str("value"), PyList(<<>>))],
     [status |-> 404, json |-> ErrorBody],
     [status |-> 500, json |-> ErrorBody],
     [status |-> 500, json |-> SurrogateBody]}

\* what _output_result prints and how it ends: an exception of print() in the
\* handler takes the place of the HTTPError (text is what json.dumps gives)
_output_result(resp, errors) ==
    IF Raised(raise_for_status(resp))
    THEN The({[printed |-> p.printed,
               outcome |-> IF Raised(p.outcome) THEN p.outcome ELSE raise_for_status(resp)] :
              p \in {print(resp.json, errors)}})
    ELSE The({IF Raised(text) THEN [printed |-> <<>>, outcome |-> text]
              ELSE print(PyStr(text.ret), errors) :
              text \in {json_dumps(resp.json, 0)}})

\* the POST of auth(), or the exception of the f-string of its URL (line 53)
AuthRequest(tenant_id, client_id, client_secret) ==
    The({IF Raised(auth_url) THEN auth_url
         ELSE Return([verb |-> "POST",
                      url |-> auth_url.ret,
                      body |-> Put(Put(Put(Put(EmptyDict, Str("grant_type"),
                                               PyStr(Str("client_credentials"))),
                                           Str("client_id"), client_id),
                                       Str("client_secret"), client_secret),
                                   Str("resource"), PyStr(Str("https://management.azure.com/")))]) :
         auth_url \in {FString(<<PyStr(Str("https://login.microsoftonline.com/")), tenant_id,
                                 PyStr(Str("/oauth2/token"))>>)}})

\* resp_json["access_token"]: the item of a dict, KeyError without the key;
\* TypeError for what is not a dict
AccessToken(resp_json) ==
    IF IsDict(resp_json)
    THEN IF HasKey(resp_json, Str("access_token"))
         THEN Return(resp_json.dict[Str("access_token")])
         ELSE Raise("KeyError", ReprStr(Str("access_token")))
    ELSE IF IsStr(resp_json)
    THEN Raise("TypeError", Str("string indices must be integers, not 'str'"))
    ELSE IF IsList(resp_json) \/ IsTuple(resp_json)
    THEN Raise("TypeError", Str(TypeName(resp_json))
                            \o Str(" indices must be integers or slices, not str"))
    ELSE Raise("TypeError", Str("'") \o Str(TypeName(resp_json))
                            \o Str("' object is not subscriptable"))

\* what auth() prints and how it ends, given the response to its POST
auth(resp, errors) ==
    IF Raised(raise_for_status(resp))
    THEN The({[printed |-> p.printed,
               outcome |-> IF Raised(p.outcome) THEN p.outcome ELSE raise_for_status(resp)] :
              p \in {print(resp.json, errors)}})
    ELSE [printed |-> <<>>, outcome |-> AccessToken(resp.json)]

-----------------------------------------------------------------------------
(* The inputs *)

\* all sequences over A of length at most n
RECURSIVE SeqsUpTo(_, _)
SeqsUpTo(A, n) ==
    IF n = 0 THEN {<<>>}
    ELSE LET S == SeqsUpTo(A, n - 1) IN S \cup {Append(s, c) : s \in S, c \in A}

MaxUrnLen == 4

MaxPriorities == 2

\* ":" and "a"
UrnAlphabet == {58, 97}

UrnValues == {PyNone} \cup {PyStr(s) : s \in SeqsUpTo(UrnAlphabet, MaxUrnLen)}

\* the URNs given on the command line: absent, empty, and well- and ill-formed ones
CliUrnValues ==
    {PyNone, PyStr(<<>>), PyStr(Str(":::")), PyStr(Str("a:a")), PyStr(Str("a:a:a:a")),
     PyStr(Str("a:a:a:a:a"))}

VhdValues == {PyNone, PyStr(<<>>), PyStr(Str("http://foobar"))}

\* strings a priority may be given as: "12", "-2", "3" after a carriage return, "x"
PriorityStrings ==
    {PyStr(Str("12")), PyStr(Str("-2")), PyStr(<<13>> \o Str("3")), PyStr(Str("x"))}

\* --test-priority has no type: the strings are passed as given
CliPriorityLists == {PyList(<<>>), PyList(<<PyStr(Str("x"))>>),
                     PyList(<<PyStr(Str("12")), PyStr(Str("1"))>>)}

\* a decimal literal of one digit more than int() reads: as many ones as it
\* reads, and one more
TooManyDigits == PyStr([i \in 1..int_max_str_digits |-> 49] \o <<49>>)

\* the Kawi digit one, U+11F51: a digit since Unicode 15.0, unassigned before
KawiOne == PyStr(<<73553>>)

\* the Kannada sign U+0CF3: a letter mark since Unicode 15.0, unassigned before
KannadaSign == PyStr(<<3315>>)

\* a direct caller may pass ints too (tests/test_cli.py does)
PriorityLists ==
    {PyList(s) : s \in SeqsUpTo(PriorityStrings \cup {PyInt(2)}, MaxPriorities)}
    \cup {PyList(<<TooManyDigits>>), PyList(<<PyStr(TooManyDigits.str \o Str("x"))>>),
          PyList(<<KawiOne>>), PyList(<<KannadaSign>>)}

CaseLists == {PyList(<<>>), PyList(<<PyStr(Str("smoke"))>>),
              PyList(<<PyStr(Str("smoke")), PyStr(Str("boot"))>>)}

RegionLists == {PyList(<<>>), PyList(<<PyStr(Str("westeurope"))>>),
                PyList(<<PyStr(Str("westus3")), PyStr(Str("eastus"))>>)}

\* click gives the values of an option with multiple=True as a tuple
Tuples(lists) == {PyTuple(l.list) : l \in lists}

OptStr(s) == {PyNone, PyStr(Str(s))}

\* the options of the click group (lines 75-81), all required
GroupParams ==
    [resource_group |-> PyStr(Str("testgroup")), client_id |-> PyStr(Str("id")),
     client_secret |-> PyStr(Str("secret")), tenant_id |-> PyStr(Str("tenant")),
     subscription_id |-> PyStr(Str("testsub"))]

\* the arguments of make_job_create_request, apart from the job's and the
\* group's names; priorities, cases, regions: the values of the three
\* sequence arguments
JobInputs(urns, priorities, cases, regions) ==
    [marketplace_image_urn : urns, vhd_sas_url : VhdValues,
     architecture : {PyNone, PyStr(Str("x64"))}, template_name : OptStr("testtemplate"),
     vm_generation : {PyInt(1), PyInt(2)}, vm_size : OptStr("testsize"),
     test_priorities : priorities, test_cases : cases,
     location : {PyStr(Str("westus3"))}, concurrency : {PyInt(0)},
     region : regions]

JobCallArgs ==
    {j @@ [job_name |-> PyStr(Str("testjob")), resource_group |-> GroupParams.resource_group,
           subscription_id |-> GroupParams.subscription_id] :
        j \in JobInputs(UrnValues, CliPriorityLists, {PyList(<<>>)},
                        {PyList(<<PyStr(Str("westeurope"))>>)})}

TemplateCallArgs ==
    [vm_size : {PyNone, PyStr(<<>>), PyStr(Str("testsize"))}, test_priorities : PriorityLists,
     test_cases : CaseLists, location : {PyStr(Str("westus3"))}, regions : RegionLists,
     concurrency : {PyInt(0), PyStr(Str("testconcurrency"))}]

Commands == {"list_templates", "get_template", "create_template", "list_jobs", "get_job",
             "delete_job", "create_job"}

\* the names of the options each command declares, as click passes them to the
\* callback (an option declared twice, --name of create_job, is passed once)
Options(cmd) ==
    CASE cmd \in {"list_templates", "list_jobs"} -> <<>>
      [] cmd \in {"get_template", "get_job", "delete_job"} -> <<"name">>
      [] cmd = "create_template" ->
            <<"name", "vm_size", "test_priorities", "test_cases", "location", "region">>
      [] cmd = "create_job" ->
            <<"name", "marketplace_image_urn", "vhd_sas_url", "architecture", "vm_generation",
              "template_name", "vm_size", "test_priorities", "test_cases", "location", "region",
              "concurrency">>

\* the keyword arguments click passes to a command's callback: one per declared option
ParamsOf(cmd) ==
    CASE cmd \in {"list_templates", "list_jobs"} -> {<<>>}
      [] cmd \in {"get_template", "get_job", "delete_job"} -> [name : {PyStr(Str("n1"))}]
      [] cmd = "create_template" ->
            [name : {PyStr(Str("t1"))}, vm_size : OptStr("testsize"),
             test_priorities : Tuples(CliPriorityLists), test_cases : Tuples(CaseLists),
             location : {PyStr(Str("westus3"))}, region : Tuples(RegionLists \ {PyList(<<>>)})]
      [] cmd = "create_job" ->
            {j @@ [name |-> PyStr(Str("testjob"))] :
                j \in JobInputs(CliUrnValues, Tuples(CliPriorityLists), {PyTuple(<<>>)},
                                {PyTuple(<<PyStr(Str("westeurope"))>>)})}

\* the parameters of each callback after ctx, in order
Signature(cmd) ==
    CASE cmd \in {"list_templates", "list_jobs"} -> <<>>
      [] cmd \in {"get_template", "get_job", "delete_job"} -> <<"name">>
      [] cmd = "create_template" ->
            <<"name", "vm_size", "test_priorities", "test_cases", "location", "region",
              "concurrency">>
      [] cmd = "create_job" ->
            <<"name", "marketplace_image_urn", "vhd_sas_url", "architecture", "template_name",
              "vm_generation", "vm_size", "test_priorities", "test_cases", "location",
              "concurrency", "region">>

-----------------------------------------------------------------------------
(* The state machine *)

\* main.py run as the program, python main.py <options> <command> <options>:
\* the module has been loaded, line 350 is next
InitScript ==
    /\ python \in Interpreters
    /\ mode = "script"
    /\ pc = "start"
    /\ command \in Commands
    /\ args \in ParamsOf(command)
    /\ ctx = PyNone
    /\ net = <<>>
    /\ stdout = <<>>
    /\ ret = NoOutcome

\* an invocation of the click group cli, as an entry point of the installed
\* package or click's test runner makes it: a command and its option values;
\* nothing has happened yet
InitCli ==
    /\ python \in Interpreters
    /\ mode = "cli"
    /\ pc = "start"
    /\ command \in Commands
    /\ args \in ParamsOf(command)
    /\ ctx = PyNone
    /\ net = <<>>
    /\ stdout = <<>>
    /\ ret = NoOutcome

\* a direct call of make_job_create_request, as tests/test_cli.py makes it
InitJob ==
    /\ python \in Interpreters
    /\ mode = "job"
    /\ pc = "call"
    /\ command = "-"
    /\ args \in JobCallArgs
    /\ ctx = PyNone
    /\ net = <<>>
    /\ stdout = <<>>
    /\ ret = NoOutcome

\* a direct call of _create_template
InitTemplate ==
    /\ python \in Interpreters
    /\ mode = "template"
    /\ pc = "call"
    /\ command = "-"
    /\ args \in TemplateCallArgs
    /\ ctx = PyNone
    /\ net = <<>>
    /\ stdout = <<>>
    /\ ret = NoOutcome

Init == InitScript \/ InitCli \/ InitJob \/ InitTemplate

\* the value of __name__ in main.py when it is run as the program
__name__ == Str("__main__")

\* lines 350-351: if __name__ == "___main__": cli(). The name compared with
\* has three leading underscores: the group is not invoked, the program ends
main ==
    /\ mode = "script" /\ pc = "start"
    /\ IF __name__ = Str("___main__")
       THEN /\ mode' = "cli"
            /\ UNCHANGED <<pc, ret>>
       ELSE /\ mode' = mode
            /\ pc' = "exit"
            /\ ret' = Return(PyNone)
    /\ UNCHANGED <<python, command, args, ctx, net, stdout>>

\* the group callback: authenticate, then fill ctx.obj (lines 90-96; ctx.obj
\* is a dict from line 91 on, the f-string of the header is at line 93)
cli ==
    /\ mode = "cli" /\ pc = "start"
    /\ \E req \in {AuthRequest(GroupParams.tenant_id, GroupParams.client_id,
                                GroupParams.client_secret)} :
       IF Raised(req)
       THEN /\ ret' = req
            /\ pc' = "exit"
            /\ UNCHANGED <<ctx, net, stdout>>
       ELSE \E resp \in AuthResponses, errors \in StdoutErrors :
            \E a \in {auth(resp, errors)} :
            /\ net' = Append(net, req.ret)
            /\ stdout' = stdout \o a.printed
            /\ IF Raised(a.outcome)
               THEN /\ ret' = a.outcome
                    /\ pc' = "exit"
                    /\ ctx' = ctx
               ELSE \E bearer \in {FString(<<PyStr(Str("Bearer ")), a.outcome.ret>>)} :
                    IF Raised(bearer)
                    THEN /\ ret' = bearer
                         /\ pc' = "exit"
                         /\ ctx' = EmptyDict
                    ELSE /\ ret' = ret
                         /\ pc' = "command"
                         /\ ctx' = Put(Put(Put(EmptyDict,
                                       Str("session"),
                                       Put(EmptyDict, Str("Authorization"), bearer.ret)),
                                       Str("resource_group"), GroupParams.resource_group),
                                       Str("subscription_id"), GroupParams.subscription_id)
    /\ UNCHANGED <<python, mode, command, args>>

\* the names of a sequence as a TypeError lists them: 'a' / 'a' and 'b' /
\* 'a', 'b', and 'c'
RECURSIVE NameList(_, _)
NameList(names, total) ==
    IF names = <<>> THEN <<>>
    ELSE Str("'") \o Str(names[1]) \o Str("'")
         \o (IF Len(names) = 1 THEN <<>>
             ELSE IF Len(names) = 2 THEN (IF total = 2 THEN Str(" and ") ELSE Str(", and "))
             ELSE Str(", "))
         \o NameList(Tail(names), total)

\* the call callback(ctx, **kwargs) of the function cmd, kwargs being the
\* names passed, in order: TypeError for the first name that is no parameter
\* after ctx (ctx itself has its value already), else for the parameters
\* left without a value
BindError(cmd, kwargs) ==
    LET IsParam(n) == \E i \in 1..Len(Signature(cmd)) : Signature(cmd)[i] = n
        Passed(n) == \E i \in 1..Len(kwargs) : kwargs[i] = n
        NotPassed(n) == ~Passed(n)
        NoParam(n) == ~IsParam(n)
        unexpected == SelectSeq(kwargs, NoParam)
        missing == SelectSeq(Signature(cmd), NotPassed)
    IN  IF unexpected # <<>>
        THEN IF unexpected[1] = "ctx"
             THEN Raise("TypeError", Str(cmd) \o Str("() got multiple values for argument 'ctx'"))
             ELSE Raise("TypeError", Str(cmd) \o Str("() got an unexpected keyword argument '")
                                     \o Str(unexpected[1]) \o Str("'"))
        ELSE IF missing # <<>>
        THEN Raise("TypeError", Str(cmd) \o Str("() missing ") \o IntToStr(Len(missing))
                                \o Str(" required positional argument")
                                \o (IF Len(missing) = 1 THEN <<>> ELSE Str("s"))
                                \o Str(": ") \o NameList(missing, Len(missing)))
        ELSE Return(PyNone)

\* the endpoint of a command, from ctx.obj; segment: the outcome of the
\* expression that gives the first argument (s is segment)
EndpointOf(segment) ==
    The({IF Raised(s) THEN s
         ELSE _get_endpoint(s.ret, ctx.dict[Str("resource_group")],
                            ctx.dict[Str("subscription_id")]) :
         s \in {segment}})

\* the request sent once more when the response is an HTTP error
SendAndOutput_Retry(verb, endpoint, payload) ==
    \E req \in {[verb |-> verb, url |-> endpoint, body |-> payload,
                  headers |-> ctx.dict[Str("session")]]} :
    \E resp \in ApiResponses, errors \in StdoutErrors :
    \E o \in {_output_result(resp, errors)} :
        /\ net' = IF Raised(raise_for_status(resp)) THEN net \o <<req, req>>
                  ELSE Append(net, req)
        /\ stdout' = stdout \o o.printed
        /\ ret' = o.outcome
        /\ pc' = "exit"

\* session.<verb>(endpoint[, json=payload]) followed by _output_result(resp)
SendAndOutput(verb, endpoint, payload) ==
    \E req \in {[verb |-> verb, url |-> endpoint, body |-> payload,
                  headers |-> ctx.dict[Str("session")]]} :
    \E resp \in ApiResponses, errors \in StdoutErrors :
    \E o \in {_output_result(resp, errors)} :
        /\ net' = Append(net, req)
        /\ stdout' = stdout \o o.printed
        /\ ret' = o.outcome
        /\ pc' = "exit"

\* the command ends with an exception before any request
Fail(outcome) ==
    /\ ret' = outcome
    /\ pc' = "exit"
    /\ UNCHANGED <<net, stdout>>

Invoked(cmd) == mode = "cli" /\ pc = "command" /\ command = cmd

\* the binding of the options click passes to the callback of the command
Bound == BindError(command, Options(command))

list_templates ==
    /\ Invoked("list_templates")
    /\ IF Raised(Bound) THEN Fail(Bound)
       ELSE \E endpoint \in {EndpointOf(Return(PyStr(Str("jobTemplates"))))} :
            IF Raised(endpoint) THEN Fail(endpoint)
            ELSE SendAndOutput("GET", endpoint.ret, PyNone)
    /\ UNCHANGED <<python, mode, command, args, ctx>>

get_template ==
    /\ Invoked("get_template")
    /\ IF Raised(Bound) THEN Fail(Bound)
       ELSE \E endpoint \in {EndpointOf(FString(<<PyStr(Str("jobTemplates/")), args.name>>))} :
            IF Raised(endpoint) THEN Fail(endpoint)
            ELSE SendAndOutput("GET", endpoint.ret, PyNone)
    /\ UNCHANGED <<python, mode, command, args, ctx>>

create_template ==
    /\ Invoked("create_template")
    /\ IF Raised(Bound) THEN Fail(Bound)
       ELSE \E endpoint \in {EndpointOf(FString(<<PyStr(Str("jobTemplates/")), args.name>>))} :
            IF Raised(endpoint) THEN Fail(endpoint)
            ELSE \E template \in {_create_template(args.vm_size, args.test_priorities,
                                                   args.test_cases, args.location, args.region,
                                                   args.concurrency)} :
                 IF Raised(template) THEN Fail(template)
                 ELSE SendAndOutput("PUT", endpoint.ret,
                                    Put(Put(Put(EmptyDict, Str("location"), args.location),
                                            Str("name"), args.name),
                                        Str("properties"), template.ret))
    /\ UNCHANGED <<python, mode, command, args, ctx>>

list_jobs ==
    /\ Invoked("list_jobs")
    /\ IF Raised(Bound) THEN Fail(Bound)
       ELSE \E endpoint \in {EndpointOf(Return(PyStr(Str("jobs"))))} :
            IF Raised(endpoint) THEN Fail(endpoint)
            ELSE SendAndOutput("GET", endpoint.ret, PyNone)
    /\ UNCHANGED <<python, mode, command, args, ctx>>

get_job ==
    /\ Invoked("get_job")
    /\ IF Raised(Bound) THEN Fail(Bound)
       ELSE \E endpoint \in {EndpointOf(FString(<<PyStr(Str("jobs/")), args.name>>))} :
            IF Raised(endpoint) THEN Fail(endpoint)
            ELSE SendAndOutput("GET", endpoint.ret, PyNone)
    /\ UNCHANGED <<python, mode, command, args, ctx>>

delete_job ==
    /\ Invoked("delete_job")
    /\ IF Raised(Bound) THEN Fail(Bound)
       ELSE \E endpoint \in {EndpointOf(FString(<<PyStr(Str("jobs/")), args.name>>))} :
            IF Raised(endpoint) THEN Fail(endpoint)
            ELSE SendAndOutput("DELETE", endpoint.ret, PyNone)
    /\ UNCHANGED <<python, mode, command, args, ctx>>

\* the arguments create_job passes to make_job_create_request (lines 328-343)
JobArgsOf(params, obj) ==
    [marketplace_image_urn |-> params.marketplace_image_urn, vhd_sas_url |-> params.vhd_sas_url,
     job_name |-> params.name, template_name |-> params.template_name,
     resource_group |-> obj.dict[Str("resource_group")],
     subscription_id |-> obj.dict[Str("subscription_id")],
     vm_size |-> params.vm_size, test_priorities |-> params.test_priorities,
     test_cases |-> params.test_cases, location |-> params.location,
     region |-> params.region, concurrency |-> params.concurrency,
     vm_generation |-> params.vm_generation, architecture |-> params.architecture]

\* the PUT sent before the request is validated
create_job_PutBeforeValidation ==
    /\ Invoked("create_job")
    /\ \E a \in {JobArgsOf(args, ctx)} :
       \E r \in {make_job_create_request(a)} :
       IF Raised(r)
       THEN /\ net' = Append(net, [verb |-> "PUT", url |-> PyNone, body |-> PyNone,
                                    headers |-> ctx.dict[Str("session")]])
            /\ ret' = r
            /\ pc' = "exit"
            /\ stdout' = stdout
       ELSE SendAndOutput("PUT", r.ret.endpoint, r.ret.payload)
    /\ UNCHANGED <<python, mode, command, args, ctx>>

create_job ==
    /\ Invoked("create_job")
    /\ IF Raised(Bound) THEN Fail(Bound)
       ELSE \E a \in {JobArgsOf(args, ctx)} :
            \E r \in {make_job_create_request(a)} :
                IF Raised(r) THEN Fail(r)
                ELSE SendAndOutput("PUT", r.ret.endpoint, r.ret.payload)
    /\ UNCHANGED <<python, mode, command, args, ctx>>

\* the arguments of make_job_create_request after the call: its statements
\* assign to the locals endpoint, image, image_parts, template and payload
\* only; the six objects it passes to _create_template at line 256, once the
\* image is built, are as that call leaves them
ArgsAfterCall(a) ==
    IF Raised(ImageOf(a.marketplace_image_urn, a.vhd_sas_url, a.vm_generation, a.architecture))
    THEN a
    ELSE The({[a EXCEPT !.vm_size = after.vm_size,
                        !.test_priorities = after.test_priorities,
                        !.test_cases = after.test_cases,
                        !.location = after.location,
                        !.region = after.regions,
                        !.concurrency = after.concurrency] :
              after \in {ArgumentsAfter(_create_template_run(
                            [vm_size |-> a.vm_size, test_priorities |-> a.test_priorities,
                             test_cases |-> a.test_cases, location |-> a.location,
                             regions |-> a.region, concurrency |-> a.concurrency]))}})

call_make_job_create_request ==
    /\ mode = "job" /\ pc = "call"
    /\ ret' = make_job_create_request(args)
    /\ args' = ArgsAfterCall(args)
    /\ pc' = "returned"
    /\ UNCHANGED <<python, mode, command, ctx, net, stdout>>

\* a call of _create_template with the arguments args, by name
call_create_template ==
    /\ mode = "template" /\ pc = "call"
    /\ \E run \in {_create_template_run(args)} :
        /\ ret' = run.outcome
        /\ args' = ArgumentsAfter(run)
    /\ pc' = "returned"
    /\ UNCHANGED <<python, mode, command, ctx, net, stdout>>

NextCli ==
    \/ cli
    \/ list_templates
    \/ get_template
    \/ create_template
    \/ list_jobs
    \/ get_job
    \/ delete_job
    \/ create_job

Next ==
    \/ main
    \/ NextCli
    \/ call_make_job_create_request
    \/ call_create_template

Spec == Init /\ [][Next]_vars

-----
(* Vocabulary of the properties, stated apart from the operators they test *)

JobDone == mode = "job" /\ pc = "returned"

TemplateDone == mode = "template" /\ pc = "returned"

CliDone == mode = "cli" /\ pc = "exit"

\* an image source that is given: neither None nor the empty string
NonEmpty(v) == v # PyNone /\ v # PyStr(<<>>)

\* the number of ":" in s
ColonCount(s) == Cardinality({i \in 1..Len(s) : s[i] = 58})

\* u occurs in m as a contiguous run of characters
Contains(m, u) == \E i \in 0..(Len(m) - Len(u)) : SubSeq(m, i + 1, i + Len(u)) = u

\* the priorities of the input sets that Python's int() accepts, with their
\* values; the Kawi digit is one for the interpreter whose Unicode version
\* has it
AcceptedPriority(v) ==
    \/ v \in {PyStr(Str("12")), PyStr(Str("-2")), PyStr(<<13>> \o Str("3")), PyStr(Str("1")),
              PyInt(2)}
    \/ v = PyStr(<<73553>>) /\ python = "3.13"

ExpectedInt(v) ==
    CASE v = PyStr(Str("12")) -> 12
      [] v = PyStr(Str("-2")) -> 0 - 2
      [] v = PyStr(<<13>> \o Str("3")) -> 3
      [] v = PyStr(Str("1")) -> 1
      [] v = PyInt(2) -> 2
      [] v = PyStr(<<73553>>) -> 1

AllAccepted(l) == \A i \in 1..Len(Items(l)) : AcceptedPriority(Items(l)[i])

\* None anywhere inside a value
RECURSIVE HasNone(_)
HasNone(v) ==
    IF IsNone(v) THEN TRUE
    ELSE IF IsList(v) \/ IsTuple(v) THEN \E i \in 1..Len(Items(v)) : HasNone(Items(v)[i])
    ELSE IF IsDict(v) THEN \E k \in DOMAIN v.dict : HasNone(v.dict[k])
    ELSE FALSE

ImageIn(o) == o.ret.payload.dict[Str("properties")].dict[Str("image")]

TemplateIn(o) == o.ret.payload.dict[Str("properties")].dict[Str("jobTemplateInstance")]

MarketplaceKeys == {Str("publisher"), Str("offer"), Str("sku"), Str("version")}

\* m begins with the characters of u
StartsWith(m, u) == Len(m) >= Len(u) /\ SubSeq(m, 1, Len(u)) = u

ValidationMsg(m) == m \in {OnlyOneMsg, NeitherMsg} \/ StartsWith(m, BadUrnMsg)

AuthCalls == {i \in 1..Len(net) : net[i].verb = "POST"}

ApiCalls == {i \in 1..Len(net) : net[i].verb # "POST"}

-----------------------------------------------------------------------------
(* C1 *)

\* C1: make_job_create_request raises a validation error, and returns no
\* (payload, endpoint) pair, when both image sources are non-empty and when both
\* are empty or absent; with exactly one of them non-empty the exclusivity
\* check does not fail.
C1_ImageSourceExclusivity ==
    JobDone =>
        LET u == NonEmpty(args.marketplace_image_urn)
            v == NonEmpty(args.vhd_sas_url)
        IN  /\ (u /\ v) => (Raised(ret) /\ ret.exc = "ValueError" /\ ret.msg = OnlyOneMsg)
            /\ (~u /\ ~v) => (Raised(ret) /\ ret.exc = "ValueError" /\ ret.msg = NeitherMsg)
            /\ (u # v) => ~(Raised(ret) /\ ret.msg \in {OnlyOneMsg, NeitherMsg})

C1_Witness ==
    /\ JobDone
    /\ NonEmpty(args.marketplace_image_urn) /\ NonEmpty(args.vhd_sas_url)
    /\ Raised(ret) /\ ret.msg = OnlyOneMsg

-----------------------------------------------------------------------------
(* C2 *)

\* a create-job invocation has ended with one of the three image-source
\* validation errors of make_job_create_request
ValidationFailed ==
    /\ mode = "cli" /\ command = "create_job"
    /\ Raised(ret) /\ ret.exc = "ValueError" /\ ValidationMsg(ret.msg)

\* C2 as stated: when a create-job invocation raises an image-source validation
\* error, no network call at all has been performed in it, neither the
\* authentication POST nor the resource API PUT.
C2_Original == ValidationFailed => net = <<>>

\* C2 amended: when a create-job invocation raises an image-source validation
\* error, no resource API request has been performed; the one request made is
\* the authentication POST, which succeeded.
C2_NoApiCallBeforeValidation ==
    ValidationFailed =>
        /\ ApiCalls = {}
        /\ Len(net) = 1 /\ net[1].verb = "POST"
        /\ ctx # PyNone

C2_Witness == ValidationFailed /\ pc = "exit" /\ ret.msg = NeitherMsg

-----------------------------------------------------------------------------
(* C3 *)

VhdCase == JobDone /\ NonEmpty(args.vhd_sas_url) /\ ~NonEmpty(args.marketplace_image_urn)

VhdImage ==
    /\ Returned(ret)
    /\ LET img == ImageIn(ret) IN
        /\ HasKey(img, Str("type")) /\ img.dict[Str("type")] = PyStr(Str("vhd"))
        /\ HasKey(img, Str("url")) /\ img.dict[Str("url")] = args.vhd_sas_url
        /\ img.dict[Str("vhdGeneration")] = args.vm_generation
        /\ img.dict[Str("architecture")] = args.architecture
        /\ DOMAIN img.dict \cap MarketplaceKeys = {}

\* C3 as stated: for every non-empty vhd_sas_url with an empty
\* marketplace_image_urn the call succeeds and the image is the vhd variant:
\* type "vhd", url, vhdGeneration and architecture as given, no marketplace key.
C3_Original == VhdCase => VhdImage

\* C3 amended: the same, for calls whose test priorities are all accepted by
\* int(); a priority int() rejects makes the call raise ValueError instead.
C3_VhdImage ==
    VhdCase =>
        IF AllAccepted(args.test_priorities) THEN VhdImage
        ELSE Raised(ret) /\ ret.exc = "ValueError" /\ ~ValidationMsg(ret.msg)

C3_Witness == VhdCase /\ VhdImage /\ args.test_priorities # PyList(<<>>)

-----------------------------------------------------------------------------
(* C4 *)

MarketplaceCase ==
    /\ JobDone
    /\ NonEmpty(args.marketplace_image_urn) /\ ~NonEmpty(args.vhd_sas_url)
    /\ ColonCount(args.marketplace_image_urn.str) = 3

\* the four fields hold the four colon-delimited parts, in order: none holds a
\* colon, and joined by colons they give the URN back
MarketplaceImage ==
    /\ Returned(ret)
    /\ LET img == ImageIn(ret) IN
        /\ HasKey(img, Str("type")) /\ img.dict[Str("type")] = PyStr(Str("marketplace"))
        /\ MarketplaceKeys \subseteq DOMAIN img.dict
        /\ \A k \in MarketplaceKeys : IsStr(img.dict[k]) /\ ColonCount(img.dict[k].str) = 0
        /\ img.dict[Str("publisher")].str \o Str(":") \o img.dict[Str("offer")].str \o Str(":")
             \o img.dict[Str("sku")].str \o Str(":") \o img.dict[Str("version")].str
           = args.marketplace_image_urn.str
        /\ ~HasKey(img, Str("url"))

\* C4 as stated: for every marketplace_image_urn of exactly 4 colon-delimited
\* parts, with an empty vhd_sas_url, the call succeeds and the image is the
\* marketplace variant with publisher, offer, sku, version the 1st to 4th part,
\* and no url key.
C4_Original == MarketplaceCase => MarketplaceImage

\* C4 amended: the same, for calls whose test priorities are all accepted by
\* int(); a priority int() rejects makes the call raise ValueError instead.
C4_MarketplaceImage ==
    MarketplaceCase =>
        IF AllAccepted(args.test_priorities) THEN MarketplaceImage
        ELSE Raised(ret) /\ ret.exc = "ValueError" /\ ~ValidationMsg(ret.msg)

C4_Witness ==
    /\ MarketplaceCase /\ MarketplaceImage
    /\ ImageIn(ret).dict[Str("sku")] = PyStr(Str("a"))

-----------------------------------------------------------------------------
(* C5 *)

\* C5: a non-empty marketplace_image_urn (vhd_sas_url empty) whose number of
\* colon-delimited parts is not 4 makes the call raise a validation error whose
\* message contains the URN as given; nothing is returned.
C5_MalformedUrn ==
    (/\ JobDone
     /\ NonEmpty(args.marketplace_image_urn) /\ ~NonEmpty(args.vhd_sas_url)
     /\ ColonCount(args.marketplace_image_urn.str) + 1 # 4)
    => /\ Raised(ret) /\ ~Returned(ret)
       /\ ret.exc = "ValueError"
       /\ StartsWith(ret.msg, BadUrnMsg)
       /\ Contains(SubSeq(ret.msg, Len(BadUrnMsg) + 1, Len(ret.msg)),
                   args.marketplace_image_urn.str)

C5_Witness ==
    /\ JobDone /\ Raised(ret)
    /\ ~NonEmpty(args.vhd_sas_url)
    /\ args.marketplace_image_urn = PyStr(Str("::::"))

-----------------------------------------------------------------------------
(* C6 *)

\* C6: the template _create_template returns has a selections key iff
\* testPriorities or testCases is non-empty; selections is then a list of
\* exactly one dict, which has casePriority iff testPriorities is non-empty (the
\* priorities as integers, in input order) and caseName iff testCases is
\* non-empty (the cases, in input order).
C6_Selections ==
    (TemplateDone /\ Returned(ret)) =>
        LET t == ret.ret
            p == args.test_priorities.list
            c == args.test_cases.list
        IN  /\ HasKey(t, Str("selections")) <=> (p # <<>> \/ c # <<>>)
            /\ HasKey(t, Str("selections")) =>
                /\ IsList(t.dict[Str("selections")])
                /\ Len(t.dict[Str("selections")].list) = 1
                /\ LET sel == t.dict[Str("selections")].list[1] IN
                    /\ IsDict(sel)
                    /\ HasKey(sel, Str("casePriority")) <=> (p # <<>>)
                    /\ HasKey(sel, Str("caseName")) <=> (c # <<>>)
                    /\ (p # <<>>) =>
                        /\ IsList(sel.dict[Str("casePriority")])
                        /\ Len(sel.dict[Str("casePriority")].list) = Len(p)
                        /\ \A i \in 1..Len(p) :
                            sel.dict[Str("casePriority")].list[i] = PyInt(ExpectedInt(p[i]))
                    /\ (c # <<>>) => sel.dict[Str("caseName")] = args.test_cases

C6_Witness ==
    /\ TemplateDone /\ Returned(ret)
    /\ args.test_priorities = PyList(<<PyStr(Str("12")), PyStr(Str("-2"))>>)
    /\ Len(args.test_cases.list) = 2
    /\ HasKey(ret.ret, Str("selections"))

-----------------------------------------------------------------------------
(* C7 *)

Rank(p) == CASE p = "start" -> 0 [] p = "command" -> 1 [] p = "exit" -> 2

\* C7: in a CLI invocation, whatever the HTTP responses, at most one
\* authentication call and at most one resource API call are made; the resource
\* API call comes second, after the authentication succeeded, and carries its
\* token; an exception ends the invocation, nothing is sent again; and the
\* invocation terminates: every step moves it forward, it can always step
\* until it has exited, and then it cannot.
C7_OneAuthOneCall ==
    /\ [](mode = "cli" =>
            /\ Cardinality(AuthCalls) <= 1
            /\ Cardinality(ApiCalls) <= 1
            /\ ApiCalls # {} =>
                /\ AuthCalls = {1} /\ ApiCalls = {2}
                /\ ctx # PyNone
                /\ net[2].headers = Put(EmptyDict, Str("Authorization"), PyStr(Str("Bearer tok")))
            /\ Raised(ret) => pc = "exit"
            /\ (pc = "exit") <=> ~ENABLED NextCli)
    /\ [][mode = "cli" => Rank(pc') > Rank(pc)]_vars

C7_Witness ==
    /\ CliDone
    /\ Len(net) = 2
    /\ Raised(ret) /\ ret.exc = "HTTPError"

-----------------------------------------------------------------------------
(* C8 *)

ValidImageSource(a) ==
    \/ NonEmpty(a.vhd_sas_url) /\ ~NonEmpty(a.marketplace_image_urn)
    \/ /\ NonEmpty(a.marketplace_image_urn) /\ ~NonEmpty(a.vhd_sas_url)
       /\ ColonCount(a.marketplace_image_urn.str) = 3

ExpectedVerb(cmd) ==
    CASE cmd \in {"list_templates", "get_template", "list_jobs", "get_job"} -> "GET"
      [] cmd \in {"create_template", "create_job"} -> "PUT"
      [] cmd = "delete_job" -> "DELETE"

ExpectedSegment(cmd, a) ==
    CASE cmd = "list_templates" -> PyStr(Str("jobTemplates"))
      [] cmd \in {"get_template", "create_template"} -> PyStr(Str("jobTemplates/") \o a.name.str)
      [] cmd = "list_jobs" -> PyStr(Str("jobs"))
      [] cmd \in {"get_job", "delete_job", "create_job"} -> PyStr(Str("jobs/") \o a.name.str)

\* C8: after a successful authentication each of the seven commands, given
\* its documented options (create-job: exactly one valid image source, and
\* priorities that are integers), issues its one request with the matching verb
\* and segment; create-template reaches its PUT.
C8_Original ==
    (/\ CliDone
     /\ ctx # PyNone
     /\ command \in {"create_template", "create_job"} => AllAccepted(args.test_priorities)
     /\ command = "create_job" => ValidImageSource(args))
    => /\ Len(net) = 2
       /\ net[2].verb = ExpectedVerb(command)
       /\ net[2].url = _get_endpoint(ExpectedSegment(command, args),
                                     GroupParams.resource_group,
                                     GroupParams.subscription_id).ret

-----------------------------------------------------------------------------
(* C9 *)

\* C9: in every payload make_job_create_request returns, an omitted optional
\* input (template_name, architecture, vm_size) gives an absent field or an
\* empty sequence, and no field of the payload holds None.
C9_Original ==
    (JobDone /\ Returned(ret)) =>
        LET props == ret.ret.payload.dict[Str("properties")]
            img == ImageIn(ret)
            t == TemplateIn(ret)
        IN  /\ args.template_name = PyNone =>
                (~HasKey(props, Str("jobTemplateName")) \/ props.dict[Str("jobTemplateName")] = PyList(<<>>))
            /\ args.architecture = PyNone =>
                (~HasKey(img, Str("architecture")) \/ img.dict[Str("architecture")] = PyList(<<>>))
            /\ args.vm_size = PyNone =>
                (~HasKey(t, Str("vmSize")) \/ t.dict[Str("vmSize")] = PyList(<<>>))
            /\ ~HasNone(ret.ret.payload)

-----------------------------------------------------------------------------
(* C10 *)

TemplateCall == mode = "template" /\ pc = "call"

\* C10 as stated: _create_template has no error condition: for every input,
\* priorities that are not numeric included, it returns a template without
\* raising and leaves its inputs as they were.
C10_Original == [][TemplateCall => (Returned(ret') /\ args' = args)]_vars

\* C10 amended: _create_template leaves its inputs as they were, and returns a
\* template without raising exactly when every priority is accepted by int();
\* a priority int() rejects makes it raise ValueError.
C10_NoErrorOnIntegers ==
    [][TemplateCall =>
        /\ args' = args
        /\ IF AllAccepted(args.test_priorities)
           THEN Returned(ret') /\ IsDict(ret'.ret)
           ELSE Raised(ret') /\ ret'.exc = "ValueError"]_vars

C10_Witness ==
    /\ TemplateDone /\ Returned(ret)
    /\ args.test_priorities = PyList(<<PyStr(<<13>> \o Str("3")), PyInt(2)>>)
    /\ Len(args.test_cases.list) = 2 /\ Len(args.regions.list) = 2

=============================================================================
